---------------------------- MODULE Spec2Model ----------------------------
(***************************************************************************)
(* A model of the scraping pipeline of SwishPredict                        *)
(* (src/data_pipeline_services/data_ingestion/scraper.py).                 *)
(*                                                                         *)
(* A behaviour is one call of one of the three public functions            *)
(*   get_month_links, get_box_score_links, extract_player_data             *)
(* with arguments drawn from bounded sets.  The web is the environment:    *)
(* every request is answered nondeterministically (success with some page, *)
(* an HTTP error status, or an exception raised by the request itself).    *)
(*                                                                         *)
(* Python strings that the code splits, slices, parses or formats are      *)
(* sequences of one-character strings; opaque strings are TLA+ strings.    *)
(***************************************************************************)
EXTENDS Naturals, Integers, Sequences, FiniteSets, TLC

VARIABLES
  fn,               \* the function being executed
  pc,               \* position inside it
  result,           \* what the call gave back: a return value or a raised exception
  trace,            \* observable effects in order: requests, error reports, sleeps
  season,           \* get_month_links: argument
  start_year_full,  \* get_month_links: local
  end_year_full,    \* get_month_links: local
  response,         \* get_month_links: local (may be unbound)
  soup,             \* get_month_links: local
  month_link_list,  \* get_box_score_links: argument
  start_date,       \* get_box_score_links: argument
  end_date,         \* get_box_score_links: argument
  start_date_dt,    \* get_box_score_links: local
  end_date_dt,      \* get_box_score_links: local
  relevant,         \* get_box_score_links: relevant_month_link_list
  page_idx,         \* get_box_score_links: position of the for loop
  served,           \* get_box_score_links: how the web answered, page by page
  page_link_list,   \* get_box_score_links: local of the loop body
  page_date_list,   \* get_box_score_links: local of the loop body
  box_link_array,   \* get_box_score_links: local, returned
  all_dates,        \* get_box_score_links: local, returned
  box_links,        \* extract_player_data: argument
  dates_in,         \* extract_player_data: argument (all_dates)
  grp,              \* extract_player_data: outer loop index i
  lnk,              \* extract_player_data: inner loop index
  team_names,       \* extract_player_data: local
  tbl,              \* extract_player_data: index of the table being read
  nrow,             \* extract_player_data: rows read so far in the table
  row,              \* extract_player_data: loop variable of the row loop
  stats,            \* extract_player_data: local
  stat_df           \* extract_player_data: the accumulated record set

vars == << fn, pc, result, trace, season, start_year_full, end_year_full,
           response, soup, month_link_list, start_date, end_date,
           start_date_dt, end_date_dt, relevant,
           page_idx, served, page_link_list, page_date_list, box_link_array,
           all_dates, box_links, dates_in,
           grp, lnk, team_names, tbl, nrow, row, stats, stat_df >>

gmlVars == << season, start_year_full, end_year_full, response, soup >>
bslVars == << month_link_list, start_date, end_date, start_date_dt,
              end_date_dt, relevant, page_idx,
              served, page_link_list, page_date_list, box_link_array, all_dates >>
epdVars == << box_links, dates_in, grp, lnk, team_names, tbl, nrow, row,
              stats, stat_df >>

---------------------------------------------------------------------------
(* Bounds of the model *)

\* the longest schedule page, in rows
MaxRows == 2
\* the longest statistics table body, in rows
MaxPlayerRows == 1
\* the most cells a player row carries
MaxCells == 22

---------------------------------------------------------------------------
(* Python string operations on sequences of characters *)

DigitChars == << "0", "1", "2", "3", "4", "5", "6", "7", "8", "9" >>

IsDigitChar(c) == \E k \in 1..10 : DigitChars[k] = c

DigitVal(c) == CHOOSE d \in 0..9 : DigitChars[d + 1] = c

\* str.isdigit(): non-empty and every character a digit
IsDigit(s) == Len(s) > 0 /\ \A k \in 1..Len(s) : IsDigitChar(s[k])

RECURSIVE ParseNat(_)
ParseNat(s) ==
  IF s = << >> THEN 0
  ELSE 10 * ParseNat(SubSeq(s, 1, Len(s) - 1)) + DigitVal(s[Len(s)])

\* str(n) of a natural number
RECURSIVE IntStr(_)
IntStr(n) ==
  IF n < 10 THEN << DigitChars[n + 1] >>
  ELSE IntStr(n \div 10) \o << DigitChars[(n % 10) + 1] >>

\* n formatted in at least w digits with leading zeros (%Y, %m, %d of strftime)
ZeroPad(n, w) ==
  LET s == IntStr(n)
  IN  IF Len(s) >= w THEN s ELSE [k \in 1..(w - Len(s)) |-> "0"] \o s

\* s[:k]
Take(s, k) == SubSeq(s, 1, IF Len(s) < k THEN Len(s) ELSE k)

\* s[-k:]
TakeLast(s, k) == SubSeq(s, IF Len(s) < k THEN 1 ELSE Len(s) - k + 1, Len(s))

\* s.split(sep) for a one-character separator
RECURSIVE Split(_, _)
Split(s, sep) ==
  IF \A k \in 1..Len(s) : s[k] # sep THEN << s >>
  ELSE LET p == CHOOSE k \in 1..Len(s) :
                  s[k] = sep /\ \A j \in 1..(k - 1) : s[j] # sep
       IN  << SubSeq(s, 1, p - 1) >> \o Split(SubSeq(s, p + 1, Len(s)), sep)

RECURSIVE LStrip(_)
LStrip(s) == IF s # << >> /\ s[1] = " " THEN LStrip(Tail(s)) ELSE s

RECURSIVE RStrip(_)
RStrip(s) ==
  IF s # << >> /\ s[Len(s)] = " " THEN RStrip(SubSeq(s, 1, Len(s) - 1)) ELSE s

\* s.strip()
Strip(s) == RStrip(LStrip(s))

UpperChars == << "A", "B", "C", "D", "E", "F", "G", "H", "I", "J", "K", "L", "M",
                 "N", "O", "P", "Q", "R", "S", "T", "U", "V", "W", "X", "Y", "Z" >>
LowerChars == << "a", "b", "c", "d", "e", "f", "g", "h", "i", "j", "k", "l", "m",
                 "n", "o", "p", "q", "r", "s", "t", "u", "v", "w", "x", "y", "z" >>

LowerChar(c) ==
  IF \E k \in 1..26 : UpperChars[k] = c
  THEN LowerChars[CHOOSE k \in 1..26 : UpperChars[k] = c]
  ELSE c

\* s.lower()
Lower(s) == [k \in 1..Len(s) |-> LowerChar(s[k])]

\* int(s) of a text: surrounding blanks and one sign are accepted, then digits only
IntLiteralBody(s) ==
  LET t == Strip(s)
  IN  IF t # << >> /\ t[1] \in {"+", "-"} THEN Tail(t) ELSE t

IntParses(s) == IsDigit(IntLiteralBody(s))

IntOf(s) ==
  LET t == Strip(s)
      n == ParseNat(IntLiteralBody(s))
  IN  IF t # << >> /\ t[1] = "-" THEN 0 - n ELSE n

---------------------------------------------------------------------------
(* Values shared by the three functions *)

BASE_URL == "https://www.basketball-reference.com"

Url(base, href) == << base, href >>

Get(url) == [ev |-> "GET", url |-> url]
\* handle_http_error(response) and handle_general_error(e, url): the failure is
\* reported at the call site and the handler returns to its caller
handle_http_error(resp) == [ev |-> "report", kind |-> "HttpError", url |-> resp.url]
handle_general_error(e, url) == [ev |-> "report", kind |-> "FetchError", url |-> url]
Sleep(lo, hi) == [ev |-> "sleep", lo |-> lo, hi |-> hi]

Returned(v) == [kind |-> "return", value |-> v]
Raised(e) == [kind |-> "raise", value |-> e]
Running == [kind |-> "running"]

Unbound == [bound |-> FALSE]

\* relevant_month_link_list before filter_relevant_months has been called
NotFiltered == [called |-> FALSE, links |-> << >>]

\* t occurs in s (Python's  t in s)
IsSubstring(t, s) ==
  \E k \in 0..(Len(s) - Len(t)) : SubSeq(s, k + 1, k + Len(t)) = t

\* s.split(): the maximal runs of non-blank characters
Words(s) == SelectSeq(Split(s, " "), LAMBDA w : w # << >>)

RECURSIVE Flatten(_)
Flatten(ss) == IF ss = << >> THEN << >> ELSE Head(ss) \o Flatten(Tail(ss))

Last(s) == s[Len(s)]

---------------------------------------------------------------------------
(* get_month_links(season) *)

Label(year_text, suffix_text) == year_text \o << "-" >> \o suffix_text

StartYearTexts ==
  { << "2", "0", "2", "1" >>, << "1", "9", "9", "9" >>, << "2", "0", "9", "9" >>,
    << "2", "1" >>, << "9", "9", "9" >>, << " ", "2", "0", "2", "1" >>,
    << "a", "b", "c", "d" >>, << >> }

SuffixTexts ==
  { << "2", "2" >>, << "0", "0" >>, << "2", "5" >>, << "2" >>,
    << "2", "2", "2" >>, << "a", "b" >> }

\* the season labels a caller passes: every start text with every suffix text,
\* a label without a dash and labels with two dashes
SeasonLabels ==
  { Label(y, s) : y \in StartYearTexts, s \in SuffixTexts }
    \cup { << "2", "0", "2", "1", "2", "2" >> }
    \cup { Label(Label(y, << "2", "2" >>), << "2", "3" >>) :
             y \in { << "2", "0", "2", "1" >>, << >> } }

\* lines 30-37: the label is refused (ValueError caught, (None, None) returned)
SeasonRefused(label) ==
  LET parts == Split(label, "-")
  IN  \/ Len(parts) # 2
      \/ ~IntParses(parts[1])
      \/ Len(parts[2]) # 2
      \/ ~IsDigit(parts[2])

\* line 32
StartYearFull(label) == IntOf(Split(label, "-")[1])

\* line 39
EndYearFull(syf, end_year) ==
  IF end_year = << "0", "0" >> THEN syf + 1
  ELSE IntOf(Take(IntStr(syf), 2) \o end_year)

\* line 41
StartUrl(eyf) == Url(BASE_URL, << "/leagues/NBA_", eyf, "_games.html" >>)

NoneNone == << "None", "None" >>

ResolveSeason ==
  /\ fn = "get_month_links" /\ pc = "resolve"
  /\ IF SeasonRefused(season)
     THEN /\ result' = Returned(NoneNone)
          /\ pc' = "done"
          /\ UNCHANGED << start_year_full, end_year_full >>
     ELSE /\ start_year_full' = StartYearFull(season)
          /\ end_year_full' = EndYearFull(StartYearFull(season), Split(season, "-")[2])
          /\ pc' = "fetch"
          /\ UNCHANGED result
  /\ UNCHANGED << fn, trace, season, response, soup >>
  /\ UNCHANGED << bslVars, epdVars >>

\* the anchors of the schedule index: visible text and href
Anchor(text, href) == [text |-> text, href |-> href]
OctoberAnchor ==
  Anchor(<< "O", "c", "t", "o", "b", "e", "r" >>, "/leagues/NBA_games-october.html")
NovemberAnchor ==
  Anchor(<< " ", "N", "o", "v", "e", "m", "b", "e", "r", " " >>,
         "/leagues/NBA_games-november.html")
BlankAnchor == Anchor(<< " " >>, "/leagues/")

\* the <body> of an answer: absent, or the anchors of its div.filter elements
NoBody == [has_body |-> FALSE, divs |-> << >>]
Body(divs) == [has_body |-> TRUE, divs |-> divs]
IndexBodies ==
  { NoBody, Body(<< >>), Body(<< << OctoberAnchor, NovemberAnchor >> >>),
    Body(<< << OctoberAnchor, BlankAnchor >>, << NovemberAnchor >> >>) }

\* lines 44-50: one request; a failure is handed to its handler and execution goes on
FetchIndex ==
  /\ fn = "get_month_links" /\ pc = "fetch"
  /\ LET start_url == StartUrl(end_year_full)
     IN  \/ \E ok \in BOOLEAN, body \in IndexBodies :
              LET r == [bound |-> TRUE, ok |-> ok, url |-> start_url, body |-> body]
              IN  /\ response' = r
                  /\ trace' = trace \o << Get(start_url) >>
                                \o (IF ok THEN << >> ELSE << handle_http_error(r) >>)
         \/ /\ response' = Unbound
            /\ trace' = trace \o << Get(start_url),
                                    handle_general_error("e", start_url) >>
  /\ pc' = "parse"
  /\ UNCHANGED << fn, result, season, start_year_full, end_year_full, soup >>
  /\ UNCHANGED << bslVars, epdVars >>

\* lines 56-61
MonthLinksOf(body) ==
  LET keep(a) ==
        LET link_text == Lower(Strip(a.text))
            ws == Words(Lower(Strip(a.text)))
        IN  \E k \in 1..Len(ws) : IsSubstring(ws[k], link_text)
      pair(a) == << Lower(Strip(a.text)), Url(BASE_URL, a.href) >>
      of_div(div) == LET kept == SelectSeq(div, keep)
                     IN  [k \in 1..Len(kept) |-> pair(kept[k])]
  IN  Flatten([d \in 1..Len(body.divs) |-> of_div(body.divs[d])])

\* lines 52-63
ParseIndex ==
  /\ fn = "get_month_links" /\ pc = "parse"
  /\ IF ~response.bound
     THEN /\ result' = Raised("UnboundLocalError")
          /\ UNCHANGED soup
     ELSE /\ soup' = [bound |-> TRUE, body |-> response.body]
          /\ result' = IF ~response.body.has_body
                       THEN Raised("AttributeError")
                       ELSE Returned(<< MonthLinksOf(response.body),
                                        start_year_full, end_year_full >>)
  /\ pc' = "done"
  /\ UNCHANGED << fn, trace, season, start_year_full, end_year_full, response >>
  /\ UNCHANGED << bslVars, epdVars >>

---------------------------------------------------------------------------
(* Calendar dates and datetime.strptime / strftime *)

Date(y, m, d) == [y |-> y, m |-> m, d |-> d]

IsLeap(y) == (y % 4 = 0 /\ y % 100 # 0) \/ y % 400 = 0

DaysIn(y, m) ==
  IF m \in {4, 6, 9, 11} THEN 30
  ELSE IF m = 2 THEN (IF IsLeap(y) THEN 29 ELSE 28)
  ELSE 31

\* the order of datetime values
DateKey(dt) == dt.y * 10000 + dt.m * 100 + dt.d

NotADate == [ok |-> FALSE, date |-> Date(0, 0, 0)]

\* the directive %m or %d on a text of one or two digits: 1..hi, "0" and "00" refused
FieldMatches(t, hi) ==
  /\ Len(t) \in {1, 2}
  /\ IsDigit(t)
  /\ ParseNat(t) >= 1 /\ ParseNat(t) <= hi

\* the datetime of year, month and day texts; the constructor refuses impossible days
MakeDate(yt, mt, dt) ==
  IF /\ Len(yt) = 4 /\ IsDigit(yt) /\ ParseNat(yt) >= 1
     /\ FieldMatches(mt, 12) /\ FieldMatches(dt, 31)
     /\ ParseNat(dt) <= DaysIn(ParseNat(yt), ParseNat(mt))
  THEN [ok |-> TRUE, date |-> Date(ParseNat(yt), ParseNat(mt), ParseNat(dt))]
  ELSE NotADate

\* datetime.strptime(s, '%Y-%m-%d'); ok is FALSE where it raises ValueError
StrptimeDashed(s) ==
  LET parts == Split(s, "-")
  IN  IF Len(parts) = 3 THEN MakeDate(parts[1], parts[2], parts[3]) ELSE NotADate

\* datetime.strptime(s, '%Y%m%d'): four year digits, then the month and the day
\* share what is left, a two-digit month being tried first
StrptimeCompact(s) ==
  LET split(ml) == << SubSeq(s, 1, 4), SubSeq(s, 5, 4 + ml), SubSeq(s, 5 + ml, Len(s)) >>
      fits(ml) == /\ Len(s) >= 5 + ml
                  /\ Len(split(ml)[1]) = 4 /\ IsDigit(split(ml)[1])
                  /\ FieldMatches(split(ml)[2], 12)
                  /\ FieldMatches(split(ml)[3], 31)
  IN  IF fits(2) THEN MakeDate(split(2)[1], split(2)[2], split(2)[3])
      ELSE IF fits(1) THEN MakeDate(split(1)[1], split(1)[2], split(1)[3])
      ELSE NotADate

\* dt.strftime('%Y-%m-%d')
StrftimeDashed(dt) ==
  ZeroPad(dt.y, 4) \o << "-" >> \o ZeroPad(dt.m, 2) \o << "-" >> \o ZeroPad(dt.d, 2)

\* the csk attribute of a schedule row: YYYYMMDD, a zero and the home team's code
StrftimeCompact(dt) == ZeroPad(dt.y, 4) \o ZeroPad(dt.m, 2) \o ZeroPad(dt.d, 2)

---------------------------------------------------------------------------
(* get_box_score_links(month_link_list, start_date, end_date, start_year, end_year) *)

October == << "o", "c", "t", "o", "b", "e", "r" >>
November == << "n", "o", "v", "e", "m", "b", "e", "r" >>
December == << "d", "e", "c", "e", "m", "b", "e", "r" >>
January == << "j", "a", "n", "u", "a", "r", "y" >>

\* config/variables.py: the months of MONTH_START_END_DATES that the model uses
MONTH_START_END_DATES ==
  << [name |-> October, m |-> 10, first |-> 1, last |-> 31],
     [name |-> November, m |-> 11, first |-> 1, last |-> 30],
     [name |-> December, m |-> 12, first |-> 1, last |-> 31],
     [name |-> January, m |-> 1, first |-> 1, last |-> 31] >>

MonthLink(name, href) == << name, Url(BASE_URL, href) >>
OctoberLink == MonthLink(October, "/leagues/NBA_2022_games-october.html")
NovemberLink == MonthLink(November, "/leagues/NBA_2022_games-november.html")
DecemberLink == MonthLink(December, "/leagues/NBA_2022_games-december.html")

MonthLinkLists ==
  { << >>, << OctoberLink >>, << NovemberLink, OctoberLink >>,
    << OctoberLink, NovemberLink, DecemberLink >> }

\* the season of the month links above: the arguments start_year and end_year
SeasonYears == [start_year |-> 2021, end_year |-> 2022]

DateTexts ==
  { StrftimeDashed(Date(2021, 10, 19)), StrftimeDashed(Date(2021, 10, 25)),
    StrftimeDashed(Date(2021, 12, 31)),
    << "2", "0", "2", "1", "1", "0", "1", "9" >> }

DateWindows ==
  { w \in DateTexts \X DateTexts :
      \/ w[1] = StrftimeDashed(Date(2021, 10, 19))
      \/ w[2] = StrftimeDashed(Date(2021, 10, 19)) }

\* filter_relevant_months: the month links whose calendar month meets the window,
\* in chronological order; October to December lie in start_year, the other months
\* in end_year
MonthKnown(name) ==
  \E k \in 1..Len(MONTH_START_END_DATES) : MONTH_START_END_DATES[k].name = name

MonthEntry(name) ==
  MONTH_START_END_DATES[
    CHOOSE k \in 1..Len(MONTH_START_END_DATES) : MONTH_START_END_DATES[k].name = name]

MonthYear(name, start_year, end_year) ==
  IF MonthEntry(name).m >= 10 THEN start_year ELSE end_year

MonthMeetsWindow(name, s, e, start_year, end_year) ==
  LET me == MonthEntry(name)
      y == MonthYear(name, start_year, end_year)
  IN  /\ DateKey(Date(y, me.m, me.first)) <= DateKey(e)
      /\ DateKey(s) <= DateKey(Date(y, me.m, me.last))

MonthOrderKey(name, start_year, end_year) ==
  MonthYear(name, start_year, end_year) * 100 + MonthEntry(name).m

RECURSIVE InMonthOrder(_, _, _)
InMonthOrder(links, start_year, end_year) ==
  IF links = << >> THEN << >>
  ELSE LET key(l) == MonthOrderKey(l[1], start_year, end_year)
           lo == CHOOSE k \in 1..Len(links) :
                   /\ \A j \in 1..Len(links) : key(links[k]) <= key(links[j])
                   /\ \A j \in 1..(k - 1) : key(links[j]) # key(links[k])
           rest == [j \in 1..(Len(links) - 1) |->
                      IF j < lo THEN links[j] ELSE links[j + 1]]
       IN  << links[lo] >> \o InMonthOrder(rest, start_year, end_year)

filter_relevant_months(links, s, e, start_year, end_year) ==
  InMonthOrder(
    SelectSeq(links, LAMBDA l : /\ MonthKnown(l[1])
                                /\ MonthMeetsWindow(l[1], s, e, start_year, end_year)),
    start_year, end_year)

\* the comparison of line 92 turned around
StartAfterEndInverted(s, e) == DateKey(s) < DateKey(e)

\* line 92
StartAfterEnd(s, e) == DateKey(s) > DateKey(e)

\* lines 89-95
CheckRange ==
  /\ fn = "get_box_score_links" /\ pc = "check"
  /\ LET s == StrptimeDashed(start_date)
         e == StrptimeDashed(end_date)
     IN  IF ~s.ok \/ ~e.ok
         THEN /\ result' = Raised("ValueError: time data does not match format")
              /\ pc' = "done"
              /\ UNCHANGED << start_date_dt, end_date_dt, relevant, page_idx >>
         ELSE IF StartAfterEnd(s.date, e.date)
         THEN /\ result' = Raised("ValueError: Start date cannot be after end date.")
              /\ start_date_dt' = s /\ end_date_dt' = e
              /\ pc' = "done"
              /\ UNCHANGED << relevant, page_idx >>
         ELSE /\ start_date_dt' = s /\ end_date_dt' = e
              /\ relevant' = [called |-> TRUE,
                              links |-> filter_relevant_months(
                                          month_link_list, s.date, e.date,
                                          SeasonYears.start_year, SeasonYears.end_year)]
              /\ page_idx' = 1
              /\ pc' = "loop"
              /\ UNCHANGED result
  /\ UNCHANGED << fn, trace, month_link_list, start_date, end_date, served,
                  page_link_list, page_date_list, box_link_array, all_dates,
                  response >>
  /\ UNCHANGED << season, start_year_full, end_year_full, soup, epdVars >>

\* a row of a month schedule page: its th[data-stat=date_game] cell, the cell's csk
\* attribute, and the anchor of its td[data-stat=box_score_text] cell
ScheduleRow(date_cell, has_csk, csk, has_link, href) ==
  [date_cell |-> date_cell, has_csk |-> has_csk, csk |-> csk,
   has_link |-> has_link, href |-> href]

BoxHref(file) == [dir |-> "/boxscores/", file |-> file]
NoHref == BoxHref(<< >>)

GameId(dt, home) == StrftimeCompact(dt) \o << "0" >> \o home
GameFile(dt, home) == GameId(dt, home) \o << ".", "h", "t", "m", "l" >>

MIL == << "M", "I", "L" >>
DEN == << "D", "E", "N" >>

PlayedGame(dt, home) ==
  ScheduleRow(TRUE, TRUE, GameId(dt, home), TRUE, BoxHref(GameFile(dt, home)))

ScheduleRows ==
  { PlayedGame(Date(2021, 10, 19), MIL),
    PlayedGame(Date(2021, 10, 25), DEN),
    \* a game not played yet: no anchor in the box score cell
    ScheduleRow(TRUE, TRUE, GameId(Date(2021, 10, 19), DEN), FALSE, NoHref),
    \* a header row inside the table body: no date cell
    ScheduleRow(FALSE, FALSE, << >>, FALSE, NoHref),
    \* a csk attribute that is no YYYYMMDD date
    ScheduleRow(TRUE, TRUE, StrftimeDashed(Date(2021, 10, 19)), TRUE,
                BoxHref(GameFile(Date(2021, 10, 19), DEN))) }

RECURSIVE SeqsUpTo(_, _)
SeqsUpTo(S, n) ==
  IF n = 0 THEN { << >> }
  ELSE LET shorter == SeqsUpTo(S, n - 1)
       IN  shorter \cup { Append(q, x) : q \in shorter, x \in S }

SchedulePages == SeqsUpTo(ScheduleRows, MaxRows)

\* line 115
InWindow(dt, s, e) == DateKey(s) <= DateKey(dt) /\ DateKey(dt) <= DateKey(e)

\* lines 109-122: the rows in page order; raised where strptime raises ValueError,
\* with the lists as they stand at that row
\* lines 112-113 and 122 for each row of ScheduleRows: game_date_dt and its
\* formatted text, worked out once per row
GameDateOf ==
  [r \in ScheduleRows |->
     LET dt == StrptimeCompact(Take(r.csk, 8))
     IN  [ok |-> dt.ok, date |-> dt.date,
          text |-> IF dt.ok THEN StrftimeDashed(dt.date) ELSE << >>]]

RECURSIVE ScanRows(_, _, _, _)
ScanRows(rows, s, e, acc) ==
  IF rows = << >> THEN acc
  ELSE LET r == Head(rows)
           dt == GameDateOf[r]
       IN  IF ~(r.date_cell /\ r.has_csk) THEN ScanRows(Tail(rows), s, e, acc)
           ELSE IF ~dt.ok THEN [acc EXCEPT !.raised = TRUE]
           ELSE IF ~InWindow(dt.date, s, e) THEN ScanRows(Tail(rows), s, e, acc)
           ELSE IF ~r.has_link THEN ScanRows(Tail(rows), s, e, acc)
           ELSE ScanRows(Tail(rows), s, e,
                         [acc EXCEPT !.links = Append(@, Url(BASE_URL, r.href)),
                                     !.dates = Append(@, dt.text)])

EmptyScan == [raised |-> FALSE, links |-> << >>, dates |-> << >>]

\* lines 124-126: a page's lists join the result
AppendGroup(groups, group) == IF group # << >> THEN Append(groups, group) ELSE groups

\* the lists of a page joining the result after the try statement instead of
\* inside it, so that a page that raised still contributes what it had collected
GroupsAfterPageOutsideTry(groups, raised, group) == AppendGroup(groups, group)

\* lines 103-132: what a page leaves in the result; the lists of a page that raised
\* are dropped with the iteration
GroupsAfterPage(groups, raised, group) ==
  IF raised THEN groups ELSE AppendGroup(groups, group)

\* line 127
PageDelay == Sleep("0.5", "2")

\* lines 100-132: one iteration of the loop over the relevant month pages
FetchMonthPage ==
  /\ fn = "get_box_score_links" /\ pc = "loop"
  /\ page_idx <= Len(relevant.links)
  /\ LET page == relevant.links[page_idx][2]
         s == start_date_dt.date
         e == end_date_dt.date
     IN  \/ \* requests.get raises
            /\ served' = Append(served, "exception")
            /\ trace' = trace \o << Get(page), handle_general_error("e", page) >>
            /\ page_link_list' = << >> /\ page_date_list' = << >>
            /\ UNCHANGED << response, box_link_array, all_dates >>
         \/ \* raise_for_status raises HTTPError: the body is not read
            LET r == [bound |-> TRUE, ok |-> FALSE, url |-> page, body |-> << >>]
            IN  /\ served' = Append(served, "http_error")
                /\ response' = r
                /\ trace' = trace \o << Get(page), handle_http_error(r) >>
                /\ page_link_list' = << >> /\ page_date_list' = << >>
                /\ UNCHANGED << box_link_array, all_dates >>
         \/ \* the page arrives and its rows are read
            \E body \in SchedulePages :
              LET r == [bound |-> TRUE, ok |-> TRUE, url |-> page, body |-> body]
                  scan == ScanRows(body, s, e, EmptyScan)
              IN  /\ served' = Append(served, "ok")
                  /\ response' = r
                  /\ page_link_list' = scan.links
                  /\ page_date_list' = scan.dates
                  /\ box_link_array' =
                       GroupsAfterPage(box_link_array, scan.raised, scan.links)
                  /\ all_dates' = GroupsAfterPage(all_dates, scan.raised, scan.dates)
                  /\ trace' = trace \o << Get(page) >>
                       \o (IF scan.raised
                           THEN << handle_general_error("e", page) >>
                           ELSE << PageDelay >>)
  /\ page_idx' = page_idx + 1
  /\ UNCHANGED << fn, pc, result, month_link_list, start_date, end_date,
                  start_date_dt, end_date_dt, relevant >>
  /\ UNCHANGED << season, start_year_full, end_year_full, soup, epdVars >>

\* line 134
ReturnLinks ==
  /\ fn = "get_box_score_links" /\ pc = "loop"
  /\ page_idx > Len(relevant.links)
  /\ result' = Returned(<< box_link_array, all_dates >>)
  /\ pc' = "done"
  /\ UNCHANGED << fn, trace, response, bslVars >>
  /\ UNCHANGED << season, start_year_full, end_year_full, soup, epdVars >>

---------------------------------------------------------------------------
(* extract_player_data(box_links, all_dates) *)

\* lines 151-155
df_columns ==
  << "Date", "Name", "Team", "Opponent", "MP", "FG", "FGA", "FG%", "3P", "3PA",
     "3P%", "FT", "FTA", "FT%", "ORB", "DRB", "TRB", "AST", "STL", "BLK",
     "TOV", "PF", "PTS", "GmSc", "+-", "GameLink", "Home" >>

\* config/variables.py: the entries of TEAM_ABBREVIATIONS that the model uses
TEAM_ABBREVIATIONS ==
  << [abbr |-> << "B", "R", "K" >>, team |-> "Brooklyn Nets"],
     [abbr |-> DEN, team |-> "Denver Nuggets"],
     [abbr |-> MIL, team |-> "Milwaukee Bucks"] >>

\* TEAM_ABBREVIATIONS.get(abbr, None)
TeamOfAbbr(abbr) ==
  IF \E k \in 1..Len(TEAM_ABBREVIATIONS) : TEAM_ABBREVIATIONS[k].abbr = abbr
  THEN TEAM_ABBREVIATIONS[
         CHOOSE k \in 1..Len(TEAM_ABBREVIATIONS) : TEAM_ABBREVIATIONS[k].abbr = abbr].team
  ELSE "None"

\* lines 171-172: link.split('/')[-1] is the file of the link's href
HomeTeam(link) == TeamOfAbbr(TakeLast(Split(link[2].file, ".")[1], 3))

BoxLink(dt, home) == Url(BASE_URL, BoxHref(GameFile(dt, home)))
MilLink == BoxLink(Date(2021, 10, 19), MIL)
DenLink == BoxLink(Date(2021, 10, 25), DEN)
\* a link whose file does not end in a team code
OddLink == Url(BASE_URL, BoxHref(<< "i", "n", "d", "e", "x", ".", "h", "t", "m", "l" >>))
Oct19 == StrftimeDashed(Date(2021, 10, 19))
Oct25 == StrftimeDashed(Date(2021, 10, 25))

\* the arguments: what get_box_score_links returns, and lists of unequal lengths
BoxLinkInputs ==
  { [links |-> << >>, dates |-> << >>],
    [links |-> << << MilLink >> >>, dates |-> << << Oct19 >> >>],
    [links |-> << << OddLink >> >>, dates |-> << << Oct25 >>, << Oct19 >> >>],
    [links |-> << << >>, << DenLink >>, << >>, << MilLink, OddLink >> >>,
     dates |-> << << >>, << Oct25 >>, << >>, << Oct19 >> >>] }

\* zip(box_links, all_dates) and zip(links, dates) stop at the shorter list
Min(a, b) == IF a < b THEN a ELSE b
NumGroups == Min(Len(box_links), Len(dates_in))
GroupLen(g) == Min(Len(box_links[g]), Len(dates_in[g]))

\* the position after (g, l) in the two nested loops; g = NumGroups + 1 at the end
RECURSIVE FirstFrom(_)
FirstFrom(g) ==
  IF g > NumGroups THEN << NumGroups + 1, 1 >>
  ELSE IF GroupLen(g) > 0 THEN << g, 1 >>
  ELSE FirstFrom(g + 1)

NextPos(g, l) == IF l < GroupLen(g) THEN << g, l + 1 >> ELSE FirstFrom(g + 1)

\* the caption of a statistics table: present or not, and its text before
\* ' Basic and Advanced Stats Table', stripped
Caption(present, team) == [present |-> present, team |-> team]
CaptionLists ==
  { << >>,
    << Caption(TRUE, "Milwaukee Bucks") >>,
    << Caption(TRUE, "Brooklyn Nets"), Caption(TRUE, "Milwaukee Bucks") >>,
    << Caption(TRUE, "Brooklyn Nets"), Caption(FALSE, "") >> }

\* line 211
BoxDelay == Sleep("3", "7")

\* a row of a statistics table: its th cell, its td[data-stat=reason] cell and the
\* texts of its td cells
PlayerRow(has_th, th, has_reason, reason, cells) ==
  [bound |-> TRUE, has_th |-> has_th, th |-> th, has_reason |-> has_reason,
   reason |-> reason, cells |-> cells]

TeamTotals == << "T", "e", "a", "m", " ", "T", "o", "t", "a", "l", "s" >>
Reserves == << "R", "e", "s", "e", "r", "v", "e", "s" >>
DidNotPlay == << "D", "i", "d", " ", "N", "o", "t", " ", "P", "l", "a", "y" >>
DidNotDress == << "D", "i", "d", " ", "N", "o", "t", " ", "D", "r", "e", "s", "s" >>
Jokic == << "N", ".", " ", "J", "o", "k", "i", "c" >>
Tucker == << " ", "P", ".", "J", ".", " ", "T", "u", "c", "k", "e", "r" >>

\* n cells, the first of them blank
Cells(n) == [k \in 1..n |-> IF k = 1 THEN << " " >> ELSE << "7" >>]

PlayerRows ==
  { PlayerRow(TRUE, Jokic, FALSE, << >>, Cells(n)) : n \in 0..MaxCells }
    \cup { PlayerRow(TRUE, Tucker, TRUE, DidNotPlay, << DidNotPlay >>),
           PlayerRow(TRUE, Tucker, TRUE, DidNotDress, << DidNotDress >>),
           PlayerRow(TRUE, TeamTotals, FALSE, << >>, Cells(Len(df_columns) - 6)),
           PlayerRow(TRUE, Reserves, FALSE, << >>, << >>),
           PlayerRow(FALSE, << >>, FALSE, << >>, Cells(Len(df_columns) - 6)) }

\* normalize_name: the name trimmed and its periods dropped
normalize_name(name) == SelectSeq(Strip(name), LAMBDA c : c # ".")

\* line 178
OpponentName(names, t) == IF names[1] = names[t] THEN names[2] ELSE names[1]

\* line 181
IsHome(team_name, home_team) == IF team_name = home_team THEN 1 ELSE 0

\* line 184
IsAggregateRow(r) == r.th \in { TeamTotals, Reserves }

\* line 191
IsDidNotPlay(r) == r.has_reason /\ IsSubstring(DidNotPlay, r.reason)

\* line 195
CellText(td) == IF Strip(td) = << >> THEN << "0" >> ELSE Strip(td)

\* line 192 counting the columns that are not statistics one short
StatFieldsOffByOne(r) ==
  IF IsDidNotPlay(r)
  THEN [k \in 1..(Len(df_columns) - 5) |-> << "D", "N", "P" >>]
  ELSE [k \in 1..Len(r.cells) |-> CellText(r.cells[k])]

\* lines 190-195
StatFields(r) ==
  IF IsDidNotPlay(r)
  THEN [k \in 1..(Len(df_columns) - 6) |-> << "D", "N", "P" >>]
  ELSE [k \in 1..Len(r.cells) |-> CellText(r.cells[k])]

\* lines 186-198
BuildStats(r, date, names, t, link) ==
  << date, normalize_name(Strip(r.th)), names[t], OpponentName(names, t) >>
    \o StatFields(r)
    \o << link, IsHome(names[t], HomeTeam(link)) >>

\* the check of line 200 left out: every parsed row is appended
RowCompleteUnchecked(st) == TRUE

\* line 200
RowComplete(st) == Len(st) = Len(df_columns)

\* lines 200-204
AddRow(df, st) == IF RowComplete(st) THEN Append(df, st) ELSE df

CurLink == box_links[grp][lnk]
CurDate == dates_in[grp][lnk]

\* the end of one iteration of the loop over the links: line 211 and the next link
NextLink(events) ==
  /\ trace' = trace \o events \o << BoxDelay >>
  /\ grp' = NextPos(grp, lnk)[1]
  /\ lnk' = NextPos(grp, lnk)[2]
  /\ pc' = "fetch_box"

\* lines 165-175: the request and the captions of the statistics tables
FetchBoxScore ==
  /\ fn = "extract_player_data" /\ pc = "fetch_box"
  /\ grp <= NumGroups
  /\ \/ \* requests.get raises
        /\ NextLink(<< Get(CurLink), handle_general_error("e", CurLink) >>)
        /\ UNCHANGED << response, team_names, tbl >>
     \/ \* raise_for_status raises HTTPError
        LET r == [bound |-> TRUE, ok |-> FALSE, url |-> CurLink, body |-> << >>]
        IN  /\ response' = r
            /\ NextLink(<< Get(CurLink), handle_http_error(r) >>)
            /\ UNCHANGED << team_names, tbl >>
     \/ \E captions \in CaptionLists :
          /\ response' = [bound |-> TRUE, ok |-> TRUE, url |-> CurLink,
                          body |-> captions]
          /\ IF \E k \in 1..Len(captions) : ~captions[k].present
             THEN \* table.find('caption') is None: AttributeError
                  /\ NextLink(<< Get(CurLink), handle_general_error("e", CurLink) >>)
                  /\ UNCHANGED << team_names, tbl >>
             ELSE /\ team_names' = [k \in 1..Len(captions) |-> captions[k].team]
                  /\ IF captions = << >>
                     THEN NextLink(<< Get(CurLink) >>) /\ UNCHANGED tbl
                     ELSE /\ trace' = trace \o << Get(CurLink) >>
                          /\ tbl' = 1
                          /\ pc' = "table"
                          /\ UNCHANGED << grp, lnk >>
  /\ UNCHANGED << fn, result, box_links, dates_in, nrow, row, stats, stat_df >>
  /\ UNCHANGED << season, start_year_full, end_year_full, soup, bslVars >>

\* lines 177-181: the head of the loop over the tables
EnterTable ==
  /\ fn = "extract_player_data" /\ pc = "table"
  /\ \/ \* team_names[1] of a single table (IndexError), or no tbody (AttributeError)
        /\ \E has_tbody \in BOOLEAN :
             (team_names[1] = team_names[tbl] /\ Len(team_names) < 2) \/ ~has_tbody
        /\ NextLink(<< handle_general_error("e", CurLink) >>)
        /\ UNCHANGED nrow
     \/ /\ ~(team_names[1] = team_names[tbl] /\ Len(team_names) < 2)
        /\ nrow' = 0
        /\ pc' = "rows"
        /\ UNCHANGED << trace, grp, lnk >>
  /\ UNCHANGED << fn, result, response, box_links, dates_in, team_names, tbl,
                  row, stats, stat_df >>
  /\ UNCHANGED << season, start_year_full, end_year_full, soup, bslVars >>

\* lines 183-204: one row of the table, or the end of its rows
ParseRow ==
  /\ fn = "extract_player_data" /\ pc = "rows"
  /\ \/ \* the rows are exhausted: the next table, or the end of the page;
        \* row and stats are dead from here on (both are assigned again before
        \* they are read), so the model forgets them
        /\ IF tbl < Len(team_names)
           THEN /\ tbl' = tbl + 1
                /\ pc' = "table"
                /\ UNCHANGED << trace, grp, lnk >>
           ELSE NextLink(<< >>) /\ UNCHANGED tbl
        /\ row' = Unbound /\ stats' = << >>
        /\ UNCHANGED << nrow, stat_df >>
     \/ /\ nrow < MaxPlayerRows
        /\ \E r \in PlayerRows :
             /\ row' = r
             /\ nrow' = nrow + 1
             /\ IF ~r.has_th
                THEN \* row.find('th') is None: AttributeError
                     /\ NextLink(<< handle_general_error("e", CurLink) >>)
                     /\ UNCHANGED << stats, stat_df >>
                ELSE IF IsAggregateRow(r)
                THEN UNCHANGED << trace, grp, lnk, pc, stats, stat_df >>
                ELSE /\ stats' = BuildStats(r, CurDate, team_names, tbl, CurLink)
                     /\ stat_df' = AddRow(stat_df, BuildStats(r, CurDate, team_names,
                                                              tbl, CurLink))
                     /\ UNCHANGED << trace, grp, lnk, pc >>
        /\ UNCHANGED tbl
  /\ UNCHANGED << fn, result, response, box_links, dates_in, team_names >>
  /\ UNCHANGED << season, start_year_full, end_year_full, soup, bslVars >>

\* line 213
ReturnStats ==
  /\ fn = "extract_player_data" /\ pc = "fetch_box"
  /\ grp > NumGroups
  /\ result' = Returned(stat_df)
  /\ pc' = "done"
  /\ UNCHANGED << fn, trace, response, epdVars >>
  /\ UNCHANGED << season, start_year_full, end_year_full, soup, bslVars >>

---------------------------------------------------------------------------
(* One call of one function *)

InitGetMonthLinks ==
  /\ fn = "get_month_links" /\ pc = "resolve"
  /\ result = Running /\ trace = << >>
  /\ season \in SeasonLabels
  /\ start_year_full = 0 /\ end_year_full = 0
  /\ response = Unbound /\ soup = Unbound
  /\ month_link_list = << >> /\ start_date = << >> /\ end_date = << >>
  /\ start_date_dt = NotADate /\ end_date_dt = NotADate
  /\ relevant = NotFiltered /\ page_idx = 0 /\ served = << >>
  /\ page_link_list = << >> /\ page_date_list = << >>
  /\ box_link_array = << >> /\ all_dates = << >>
  /\ box_links = << >> /\ dates_in = << >> /\ grp = 0 /\ lnk = 0
  /\ team_names = << >> /\ tbl = 0 /\ nrow = 0 /\ row = Unbound
  /\ stats = << >> /\ stat_df = << >>

InitGetBoxScoreLinks ==
  /\ fn = "get_box_score_links" /\ pc = "check"
  /\ result = Running /\ trace = << >>
  /\ season = << >> /\ start_year_full = 0 /\ end_year_full = 0
  /\ response = Unbound /\ soup = Unbound
  /\ month_link_list \in MonthLinkLists
  /\ \E w \in DateWindows : start_date = w[1] /\ end_date = w[2]
  /\ start_date_dt = NotADate /\ end_date_dt = NotADate
  /\ relevant = NotFiltered /\ page_idx = 0 /\ served = << >>
  /\ page_link_list = << >> /\ page_date_list = << >>
  /\ box_link_array = << >> /\ all_dates = << >>
  /\ box_links = << >> /\ dates_in = << >> /\ grp = 0 /\ lnk = 0
  /\ team_names = << >> /\ tbl = 0 /\ nrow = 0 /\ row = Unbound
  /\ stats = << >> /\ stat_df = << >>

InitExtractPlayerData ==
  /\ fn = "extract_player_data" /\ pc = "fetch_box"
  /\ result = Running /\ trace = << >>
  /\ season = << >> /\ start_year_full = 0 /\ end_year_full = 0
  /\ response = Unbound /\ soup = Unbound
  /\ month_link_list = << >> /\ start_date = << >> /\ end_date = << >>
  /\ start_date_dt = NotADate /\ end_date_dt = NotADate
  /\ relevant = NotFiltered /\ page_idx = 0 /\ served = << >>
  /\ page_link_list = << >> /\ page_date_list = << >>
  /\ box_link_array = << >> /\ all_dates = << >>
  /\ \E a \in BoxLinkInputs :
       /\ box_links = a.links /\ dates_in = a.dates
       /\ grp = FirstFrom(1)[1] /\ lnk = 1
  /\ team_names = << >> /\ tbl = 0 /\ nrow = 0 /\ row = Unbound
  /\ stats = << >> /\ stat_df = << >>

Init == InitGetMonthLinks \/ InitGetBoxScoreLinks \/ InitExtractPlayerData

Next ==
  \/ ResolveSeason \/ FetchIndex \/ ParseIndex
  \/ CheckRange \/ FetchMonthPage \/ ReturnLinks
  \/ FetchBoxScore \/ EnterTable \/ ParseRow \/ ReturnStats

Spec == Init /\ [][Next]_vars

---------------------------------------------------------------------------
(* The properties *)

IsGet(e) == e.ev = "GET"
IsReport(e) == e.ev = "report"
IsSleep(e) == e.ev = "sleep"
NoRequest == \A k \in 1..Len(trace) : ~IsGet(trace[k])

\* the pattern <4-digit-year>-<2-digit-suffix>
WellFormedSeason(label) ==
  /\ Len(label) = 7
  /\ \A k \in {1, 2, 3, 4, 6, 7} : IsDigitChar(label[k])
  /\ label[5] = "-"

\* get_month_links has accepted the label and resolved the two years
SeasonAccepted == fn = "get_month_links" /\ pc \in {"fetch", "parse"}

\* C1: for every season label YYYY-SS that get_month_links accepts, the resolved
\* end year is the start year plus one.
C1_EndYearIsStartYearPlusOne ==
  (SeasonAccepted /\ WellFormedSeason(season))
    => end_year_full = start_year_full + 1

\* the call has failed: an exception, or the (None, None) by which the code signals
\* a refused label
SeasonCallFailed ==
  /\ pc = "done"
  /\ \/ result.kind = "raise"
     \/ result.kind = "return" /\ Len(result.value) = 2

\* C2: a label that does not match <4-digit-year>-<2-digit-suffix> makes
\* get_month_links fail, and no network request is ever issued for it.
C2_MalformedSeasonFailsBeforeAnyRequest ==
  (fn = "get_month_links" /\ ~WellFormedSeason(season))
    => /\ NoRequest
       /\ pc # "resolve" => SeasonCallFailed

\* the windows whose two dates parse and whose start lies after their end
ReversedWindows ==
  { w \in DateWindows :
      /\ StrptimeDashed(w[1]).ok /\ StrptimeDashed(w[2]).ok
      /\ DateKey(StrptimeDashed(w[1]).date) > DateKey(StrptimeDashed(w[2]).date) }

WindowReversed == << start_date, end_date >> \in ReversedWindows

\* C3: with start_date after end_date, get_box_score_links raises its range error;
\* the month pages are neither filtered nor fetched and nothing is returned.
C3_ReversedWindowRaisesBeforeAnyRequest ==
  (fn = "get_box_score_links" /\ WindowReversed /\ pc # "check")
    => /\ pc = "done"
       /\ result = Raised("ValueError: Start date cannot be after end date.")
       /\ NoRequest
       /\ ~relevant.called
       /\ served = << >>

C3_Witness ==
  /\ fn = "get_box_score_links" /\ pc = "done"
  /\ WindowReversed
  /\ month_link_list # << >>
  /\ result.kind = "raise"

\* the window of the call, parsed
WindowDates ==
  [w \in DateWindows |->
     [s |-> StrptimeDashed(w[1]).date, e |-> StrptimeDashed(w[2]).date]]

\* conditions (a), (b) and (c) of a schedule row: a date attribute that parses as
\* YYYYMMDD, the date inside the window, and a box score link
RowQualifies(r, w) ==
  /\ r.date_cell /\ r.has_csk
  /\ StrptimeCompact(Take(r.csk, 8)).ok
  /\ DateKey(w.s) <= DateKey(StrptimeCompact(Take(r.csk, 8)).date)
  /\ DateKey(StrptimeCompact(Take(r.csk, 8)).date) <= DateKey(w.e)
  /\ r.has_link

\* every window with every row, and whether the row qualifies in the window
RowVerdicts ==
  { << w, r, /\ StrptimeDashed(w[1]).ok /\ StrptimeDashed(w[2]).ok
             /\ RowQualifies(r, WindowDates[w]) >> :
      w \in DateWindows, r \in ScheduleRows }

QualifyingRows(body) ==
  SelectSeq(body, LAMBDA r : << << start_date, end_date >>, r, TRUE >> \in RowVerdicts)

\* the date of a row's csk attribute as YYYY-MM-DD
RowDateTexts ==
  { << r, StrftimeDashed(StrptimeCompact(Take(r.csk, 8)).date) >> :
      r \in { x \in ScheduleRows : StrptimeCompact(Take(x.csk, 8)).ok } }

DateTextOf(r) == (CHOOSE p \in RowDateTexts : p[1] = r)[2]

LinksOfRows(rows) == [k \in 1..Len(rows) |-> Url(BASE_URL, rows[k].href)]
DatesOfRows(rows) == [k \in 1..Len(rows) |-> DateTextOf(rows[k])]

\* the events that one step added to the trace
NewEvents == SubSeq(trace', Len(trace) + 1, Len(trace'))

\* one iteration of the loop over the month pages
MonthPageStep ==
  fn = "get_box_score_links" /\ pc = "loop" /\ page_idx' = page_idx + 1

\* C4: a failure is contained per month page.  Each iteration requests the next
\* relevant page and goes on to the one after it, whatever the outcome; a page that
\* failed (its failure is reported) leaves both output sequences as they were, and a
\* page that did not fail adds its links and dates; at the end every relevant page
\* has been requested, in order, and the two sequences are returned.
C4_PageFailureIsContained ==
  /\ [][MonthPageStep =>
          LET failed == \E k \in 1..Len(NewEvents) : IsReport(NewEvents[k])
              rows == QualifyingRows(response'.body)
          IN  /\ NewEvents[1] = Get(relevant.links[page_idx][2])
              /\ pc' = "loop" /\ result' = Running
              /\ Last(served') # "ok" => failed
              /\ failed => /\ box_link_array' = box_link_array
                           /\ all_dates' = all_dates
              /\ ~failed =>
                   /\ box_link_array' =
                        IF rows = << >> THEN box_link_array
                        ELSE Append(box_link_array, LinksOfRows(rows))
                   /\ all_dates' =
                        IF rows = << >> THEN all_dates
                        ELSE Append(all_dates, DatesOfRows(rows))]_vars
  /\ []((fn = "get_box_score_links" /\ pc = "done" /\ relevant.called)
          => /\ result = Returned(<< box_link_array, all_dates >>)
             /\ SelectSeq(trace, IsGet)
                  = [k \in 1..Len(relevant.links) |-> Get(relevant.links[k][2])])

\* three month pages, the second of which failed, the other two returned
C4_Witness ==
  /\ fn = "get_box_score_links" /\ pc = "done"
  /\ Len(served) = 3
  /\ served[1] = "ok" /\ served[2] = "http_error" /\ served[3] = "ok"
  /\ Len(box_link_array) = 2

\* C5: the group of a month page that was fetched successfully is exactly its
\* rows, in page order, that satisfy (a), (b) and (c); a row that fails one of them
\* is skipped alone; a page without such a row yields no group.
C5_GroupIsExactlyTheQualifyingRows ==
  (fn = "get_box_score_links" /\ served # << >> /\ Last(served) = "ok")
    => LET rows == QualifyingRows(response.body)
       IN  /\ page_link_list = LinksOfRows(rows)
           /\ page_date_list = DatesOfRows(rows)
           /\ rows # << >> => /\ box_link_array # << >>
                              /\ Last(box_link_array) = LinksOfRows(rows)
           /\ \A g \in 1..Len(box_link_array) : box_link_array[g] # << >>

\* C6: between two successive month page requests there is a pacing delay.
C6_DelayBetweenMonthPageRequests ==
  fn = "get_box_score_links"
    => \A i \in 1..Len(trace) : \A j \in (i + 1)..Len(trace) :
         (IsGet(trace[i]) /\ IsGet(trace[j]))
           => \E k \in (i + 1)..(j - 1) : IsSleep(trace[k])

\* the declared column count
SchemaLength == 27

\* a row of a statistics table that is a player's: it has a name cell and is not
\* one of the aggregate rows
IsPlayerRow(r) == r.bound /\ r.has_th /\ r.th \notin { TeamTotals, Reserves }

\* one row of a statistics table has been read
PlayerRowStep ==
  fn = "extract_player_data" /\ pc = "rows" /\ nrow' = nrow + 1 /\ IsPlayerRow(row')

\* C7: every row of the record set has exactly the 27 declared fields; a parsed row
\* with another number of fields is dropped, one with 27 fields is appended as it
\* was parsed, and the fields of a row are its cells and the six fields around them.
C7_EveryRowHasTheSchemaLength ==
  /\ [](fn = "extract_player_data"
          => /\ Len(df_columns) = SchemaLength
             /\ \A k \in 1..Len(stat_df) : Len(stat_df[k]) = SchemaLength
             /\ result.kind = "return" => result.value = stat_df)
  /\ [][fn = "extract_player_data" =>
          IF PlayerRowStep
          THEN /\ \/ row'.has_reason /\ IsSubstring(DidNotPlay, row'.reason)
                  \/ Len(stats') = Len(row'.cells) + 6
               /\ Len(stats') = SchemaLength => stat_df' = Append(stat_df, stats')
               /\ Len(stats') # SchemaLength => stat_df' = stat_df
          ELSE stat_df' = stat_df]_vars

\* a row of 22 cells has been dropped from a record set that holds rows
C7_Witness ==
  /\ fn = "extract_player_data" /\ pc = "rows" /\ nrow >= 1
  /\ IsPlayerRow(row) /\ ~row.has_reason
  /\ Len(row.cells) = SchemaLength - 5
  /\ Len(stats) = SchemaLength + 1
  /\ stat_df # << >>

DNPText == << "D", "N", "P" >>

\* C8: a player row whose reason cell contains 'Did Not Play' is appended to the
\* record set with DNP in each of the 21 statistic columns MP to +-, and with its
\* usual date, name, team, opponent, link and home flag.
C8_DidNotPlayRowIsEmitted ==
  [][(PlayerRowStep /\ row'.has_reason /\ IsSubstring(DidNotPlay, row'.reason))
       => /\ Len(stat_df') = Len(stat_df) + 1
          /\ SubSeq(stat_df', 1, Len(stat_df)) = stat_df
          /\ LET e == Last(stat_df')
                 link == box_links[grp][lnk]
                 code == TakeLast(Split(link[2].file, ".")[1], 3)
                 other == IF tbl = 1 THEN 2 ELSE 1
             IN  /\ Len(e) = SchemaLength
                 /\ \A k \in 5..25 : e[k] = DNPText /\ e[k] # << "0" >>
                 /\ e[1] = dates_in[grp][lnk]
                 /\ e[2] = normalize_name(Strip(row'.th))
                 /\ e[3] = team_names[tbl]
                 /\ e[4] = team_names[other]
                 /\ e[26] = link
                 /\ e[27] = (IF team_names[tbl] = TeamOfAbbr(code)
                             THEN 1 ELSE 0)]_vars

\* a Did Not Play row of the home team has just been emitted
C8_Witness ==
  /\ fn = "extract_player_data" /\ pc = "rows" /\ nrow >= 1
  /\ IsPlayerRow(row) /\ row.has_reason /\ IsSubstring(DidNotPlay, row.reason)
  /\ stat_df # << >>
  /\ Last(stat_df)[5] = DNPText
  /\ Last(stat_df)[27] = 1

\* the request for the schedule index failed: the failure was reported
IndexFetchFailed ==
  fn = "get_month_links" /\ \E k \in 1..Len(trace) : IsReport(trace[k])

\* C9: a failed request for the schedule index is fatal: the call ends with the
\* failure raised to its caller, the answer is never parsed and no list of month
\* links is returned.
C9_IndexFailureIsFatal ==
  (IndexFetchFailed /\ pc = "done")
    => /\ result.kind = "raise"
       /\ ~soup.bound

\* C10: a box score page whose processing failed is skipped as a whole: the record
\* set holds no row whose GameLink is that page.
C10_FailedPageLeavesNoRows ==
  fn = "extract_player_data"
    => \A k \in 1..Len(trace) :
         IsReport(trace[k])
           => \A j \in 1..Len(stat_df) : stat_df[j][26] # trace[k].url

=============================================================================
